---- MODULE Spec2Model ----
(***************************************************************************)
(* A model of the Uhale client (src/src/index.ts): the session manager     *)
(* (sessionId / user slots, login), the authenticated operations, the      *)
(* three interval-driven polls and uploadFile.                             *)
(*                                                                         *)
(* An async method is a process: a step runs from one await of the network *)
(* to the next.  What the server answers is chosen when the answer is      *)
(* processed.  The caller awaits one operation before invoking the next,   *)
(* except that login calls may overlap each other.                         *)
(***************************************************************************)
EXTENDS Naturals, Sequences, FiniteSets, TLC

VARIABLES
    sessionId,    \* this.sessionId: NULL or a string
    user,         \* this.user: {} for null, {[token, expiresAt]} otherwise
    acquired,     \* what the acquisition that came back last with success
                  \* returned (NULL: none has)
    login,        \* per login call in progress: position and requests issued
    call,         \* the single-request method in progress and its request
    upload,       \* the uploadFile call in progress: position, requests, descriptor
    ret,          \* the call that returned last: method, arguments, error or
                  \* value ({} for undefined, {v} otherwise), requests issued
    pollKind,     \* which waitFor... promise exists ("none": none)
    fileIds,      \* the fileIds argument of the poll
    maxAttempts,  \* the maxAttempts argument of the poll
    attempts,     \* the closure's attempts counter
    interval,     \* TRUE while the setInterval timer is active
    outcome,      \* the promise: "pending", "resolved" or the rejection message
    results,      \* per probe, in start order: "inflight" or what it came back with
    settledOn     \* the file states whose check resolved the promise

vars == <<sessionId, user, acquired, login, call, upload, ret, pollKind, fileIds,
          maxAttempts, attempts, interval, outcome, results, settledOn>>

sessionVars == <<sessionId, user, acquired>>
pollVars == <<pollKind, fileIds, maxAttempts, attempts, interval, outcome,
              results, settledOn>>

----------------------------------------------------------------------------
(* Values *)

\* null / undefined
NULL == "null"

\* JavaScript truthiness of a string-or-null: `!v`
Falsy(v) == v = NULL \/ v = ""

\* `v ?? d`
Coalesce(v, d) == IF v = NULL THEN d ELSE v

\* Cap on the probes one poll starts (the timer itself never stops firing).
MaxProbes == 3

Procs == {"p1", "p2"}
Emails == {NULL, "", "e"}
Passwords == {NULL, "", "pw"}
SessionIds == {"", "s1", "s2"}
UserTokens == {"", "t1"}
ExpireAts == {<<1, 7>>}
FileIds == {"f1", "f2"}
ErrorMsgs == {"denied"}

\* What the server may answer where data of D is expected: the envelope
\* {errorCode, errorMsg, data} with errorCode absent or "0", an envelope with
\* another errorCode, or no answer at all (the transport fails).
Responses(D) ==
    LET any == CHOOSE d \in D : TRUE IN
    [transport : {"ok"}, errorCode : {"0"}, errorMsg : ErrorMsgs, data : D]
    \cup [transport : {"ok"}, errorCode : {NULL, "500"}, errorMsg : ErrorMsgs,
          data : {any}]
    \cup [transport : {"failed"}, errorCode : {NULL}, errorMsg : ErrorMsgs,
          data : {any}]

\* (mutant) a request that leaves the sessionId header empty
RequestNoHeader(url, token, sid) == [url |-> url, userToken |-> token, sessionId |-> ""]

\* A request as issued: the endpoint, the userToken query parameter and the
\* sessionId header (NULL where the request carries none).
Request(url, token, sid) == [url |-> url, userToken |-> token, sessionId |-> sid]

----------------------------------------------------------------------------
(* Transport *)

\* What _callApi throws for a response, NULL when it returns response.data.
callApi(resp) ==
    IF resp.transport = "failed" THEN "fetch failed"
    ELSE IF ~Falsy(resp.errorCode) /\ resp.errorCode # "0"
         THEN resp.errorCode \o ": " \o resp.errorMsg
         ELSE NULL

\* Number(data.expireAt) of a decimal digit string.
RECURSIVE Number(_)
Number(ds) ==
    IF ds = <<>> THEN 0
    ELSE 10 * Number(SubSeq(ds, 1, Len(ds) - 1)) + ds[Len(ds)]

----------------------------------------------------------------------------
(* Session manager *)

\* The request _getSessionId(userToken) issues.
getSessionIdRequest(userToken) ==
    IF ~Falsy(userToken)
    THEN Request("/getSessionId", userToken, Coalesce(sessionId, ""))
    ELSE Request("/sessionId", NULL, Coalesce(sessionId, ""))

\* (mutant) an acquisition keeps an identifier the client already holds
storedFirstWins(resp) == IF sessionId # NULL THEN sessionId ELSE resp.data

\* (mutant) an acquisition stores the data of a response also when it failed
storedAlways(resp) == resp.data

\* (mutant) a failed acquisition clears the identifier
storedRollback(resp) == IF callApi(resp) # NULL THEN NULL ELSE resp.data

\* this.sessionId after _getSessionId got `resp`: `this.sessionId = data` is
\* reached only when _callApi returned.
stored(resp) == IF callApi(resp) # NULL THEN sessionId ELSE resp.data

\* (mutant) the precondition as a comparison with null only
NoSessionNullOnly == sessionId = NULL

\* The no-session precondition of every authenticated method.
NoSession == Falsy(sessionId)

\* The records of calls: one per login in progress, one for the other call in
\* progress, and `ret` for the call that returned last.  A new call drops the
\* record of the call that returned before it.
NoLogin == [pc |-> "idle", args |-> <<>>, issued |-> <<>>]
NoCall == [op |-> "none", pc |-> "idle", issued |-> <<>>]
NoUpload == [pc |-> "idle", issued |-> <<>>, fileId |-> NULL, put |-> NULL]
NoRet == [op |-> "none", args |-> <<>>, error |-> NULL, value |-> {}, issued |-> <<>>]
Threw(op, error, issued) ==
    [op |-> op, args |-> <<>>, error |-> error, value |-> {}, issued |-> issued]
Returned(op, value, issued) ==
    [op |-> op, args |-> <<>>, error |-> NULL, value |-> value, issued |-> issued]
loginThrew(args, error, issued) == [Threw("login", error, issued) EXCEPT !.args = args]
loginReturned(args, issued) == [Returned("login", {}, issued) EXCEPT !.args = args]

\* (mutant) login checks the email only
requiredEmailOnly(email, password) == Falsy(email)

\* `!email || !password` of login
required(email, password) == Falsy(email) \/ Falsy(password)

NoPoll ==
    /\ pollKind' = "none"
    /\ fileIds' = {}
    /\ maxAttempts' = [finite |-> FALSE, n |-> 0]
    /\ attempts' = 0
    /\ interval' = FALSE
    /\ outcome' = "pending"
    /\ results' = <<>>
    /\ settledOn' = <<>>

\* The caller awaits one operation before invoking the next, except that
\* login calls may overlap each other.
PollIdle == ~interval /\ \A i \in DOMAIN results : results[i].st # "inflight"
OthersIdle == call.pc = "idle" /\ upload.pc = "idle" /\ PollIdle
AllIdle == OthersIdle /\ \A p \in Procs : login[p].pc = "idle"

\* login(email, password), up to its first await.
login_(p, email, password) ==
    /\ login[p].pc = "idle"
    /\ OthersIdle
    /\ IF required(email, password)
       THEN /\ ret' = loginThrew(<<email, password>>,
                                 "email and password are required", <<>>)
            /\ UNCHANGED login
       ELSE /\ login' = [login EXCEPT ![p] =
                    [pc |-> "anon", args |-> <<email, password>>,
                     issued |-> <<getSessionIdRequest(NULL)>>]]
            /\ ret' = NoRet
    /\ NoPoll
    /\ UNCHANGED <<sessionVars, call, upload>>

\* The anonymous acquisition's response (_getSessionId stores it); on success
\* login goes on to _login, which checks the session and issues the exchange.
loginAnonReturn(p, resp) ==
    /\ login[p].pc = "anon"
    /\ sessionId' = stored(resp)
    /\ IF callApi(resp) # NULL
       THEN /\ ret' = loginThrew(login[p].args, callApi(resp), login[p].issued)
            /\ login' = [login EXCEPT ![p] = NoLogin]
            /\ UNCHANGED acquired
       ELSE /\ acquired' = resp.data
            /\ IF Falsy(sessionId')
               THEN /\ ret' = loginThrew(login[p].args, "no session id", login[p].issued)
                    /\ login' = [login EXCEPT ![p] = NoLogin]
               ELSE /\ login' = [login EXCEPT ![p].pc = "exch",
                            ![p].issued = Append(@, Request("/user/device/login",
                                                            NULL, sessionId'))]
                    /\ UNCHANGED ret
    /\ UNCHANGED <<user, call, upload, pollVars>>

\* (mutant) a failed exchange rolls the session back: it drops the identifier
loginExchangeReturnRollback(p, resp) ==
    /\ login[p].pc = "exch"
    /\ IF callApi(resp) # NULL
       THEN /\ ret' = loginThrew(login[p].args, callApi(resp), login[p].issued)
            /\ login' = [login EXCEPT ![p] = NoLogin]
            /\ sessionId' = NULL
            /\ UNCHANGED user
       ELSE /\ user' = {[token |-> resp.data.userToken,
                         expiresAt |-> Number(resp.data.expireAt)]}
            /\ login' = [login EXCEPT ![p].pc = "auth",
                     ![p].issued = Append(@, getSessionIdRequest(resp.data.userToken))]
            /\ UNCHANGED <<ret, sessionId>>
    /\ UNCHANGED <<acquired, call, upload, pollVars>>

\* The credential exchange's response (_login stores the user); on success
\* login goes on to the acquisition with this.user.token.
loginExchangeReturn(p, resp) ==
    /\ login[p].pc = "exch"
    /\ IF callApi(resp) # NULL
       THEN /\ ret' = loginThrew(login[p].args, callApi(resp), login[p].issued)
            /\ login' = [login EXCEPT ![p] = NoLogin]
            /\ UNCHANGED user
       ELSE /\ user' = {[token |-> resp.data.userToken,
                         expiresAt |-> Number(resp.data.expireAt)]}
            /\ login' = [login EXCEPT ![p].pc = "auth",
                     ![p].issued = Append(@, getSessionIdRequest(resp.data.userToken))]
            /\ UNCHANGED ret
    /\ UNCHANGED <<sessionId, acquired, call, upload, pollVars>>

\* The second acquisition's response: login returns.
loginAuthReturn(p, resp) ==
    /\ login[p].pc = "auth"
    /\ sessionId' = stored(resp)
    /\ IF callApi(resp) # NULL
       THEN /\ ret' = loginThrew(login[p].args, callApi(resp), login[p].issued)
            /\ UNCHANGED acquired
       ELSE /\ acquired' = resp.data
            /\ ret' = loginReturned(login[p].args, login[p].issued)
    /\ login' = [login EXCEPT ![p] = NoLogin]
    /\ UNCHANGED <<user, call, upload, pollVars>>

----------------------------------------------------------------------------
(* Authenticated single-request methods *)

SessionCodes == {"0", "1", "2", "3", "4", "9"}
FileCodes == {"1", "2", "3", "9", NULL}
RevokeCodes == {"1", "2", "9"}
Terminals == {"[]", "[terminal]"}
Revoked == {"[]", "[f1]"}
Descriptors == [awsUploadUrl : {"aws"}, fileUrl : {"url"}, fileId : FileIds]

\* `if (!this.sessionId) throw ...; this._callApi(url, {headers: {sessionId}})`
authenticated(op, url) ==
    /\ AllIdle
    /\ IF NoSession
       THEN /\ ret' = Threw(op, "no session id", <<>>)
            /\ UNCHANGED call
       ELSE /\ call' = [op |-> op, pc |-> "wait",
                        issued |-> <<Request(url, NULL, sessionId)>>]
            /\ ret' = NoRet
    /\ NoPoll
    /\ UNCHANGED <<sessionVars, login, upload>>

\* The method's response: it throws what _callApi throws or returns `value`.
respond(op, resp, value) ==
    /\ call.pc = "wait"
    /\ call.op = op
    /\ ret' = IF callApi(resp) # NULL
              THEN Threw(op, callApi(resp), call.issued)
              ELSE Returned(op, value, call.issued)
    /\ call' = NoCall
    /\ UNCHANGED <<sessionVars, login, upload, pollVars>>

\* (mutant) a code outside the table is passed through
sessionIdStatesPassThrough(data) ==
    CASE data = "0" -> "loggedOut"
      [] data = "1" -> "scanned"
      [] data = "2" -> "loggedIn"
      [] data = "3" -> "failed"
      [] data = "4" -> "expired"
      [] OTHER -> data

\* `states[data] ?? 'unknown'` of getSessionIdState
sessionIdStates(data) ==
    CASE data = "0" -> "loggedOut"
      [] data = "1" -> "scanned"
      [] data = "2" -> "loggedIn"
      [] data = "3" -> "failed"
      [] data = "4" -> "expired"
      [] OTHER -> "unknown"

getSessionIdState == authenticated("getSessionIdState", "/sessionIdState")
getSessionIdStateReturn(resp) ==
    respond("getSessionIdState", resp, {sessionIdStates(resp.data)})

getPresignedUrl == authenticated("getPresignedUrl", "/presignedUrl")
getPresignedUrlReturn(resp) == respond("getPresignedUrl", resp, {resp.data})

saveUploadedFile == authenticated("saveUploadedFile", "/file")
saveUploadedFileReturn(resp) == respond("saveUploadedFile", resp, {})

revokeFiles == authenticated("revokeFiles", "/revoke")
revokeFilesReturn(resp) == respond("revokeFiles", resp, {resp.data})

getTerminals == authenticated("getTerminals", "/terminal")
getTerminalsReturn(resp) == respond("getTerminals", resp, {resp.data})

----------------------------------------------------------------------------
(* Polls *)

Infinity == [finite |-> FALSE, n |-> 0]
Finite(n) == [finite |-> TRUE, n |-> n]
\* The maxAttempts argument: {} when the caller leaves it out.
MaxAttemptsArgs == {{}, {Finite(1)}, {Finite(2)}}

\* A default parameter: `maxAttempts = d`
Default(arg, d) == IF arg = {} THEN d ELSE CHOOSE m \in arg : TRUE
FileIdsArgs == {{"f1"}, {"f1", "f2"}}

\* (mutant) the attempts are never used up
ExhaustedNever(a, m) == FALSE

\* (mutant) the comparison takes Infinity for a number
ExhaustedUnguarded(a, m) == a >= m.n

\* `attempts >= maxAttempts`
Exhausted(a, m) == m.finite /\ a >= m.n

\* A probe's entry in `results`.
Inflight == [st |-> "inflight", v |-> NULL]
Came(v) == [st |-> "returned", v |-> v]
Raised(e) == [st |-> "raised", v |-> e]

\* resolve / reject of a promise: it settles once.
resolve(out) == IF out = "pending" THEN "resolved" ELSE out

\* (mutant) a later reject replaces the outcome
rejectOverwrites(out, e) == e

reject(out, e) == IF out = "pending" THEN e ELSE out

\* What a check does with the timer and the promise once its probe is over.
Continue == [clear |-> FALSE, settle |-> "none", error |-> NULL]
Resolve == [clear |-> TRUE, settle |-> "resolve", error |-> NULL]
Reject(e) == [clear |-> TRUE, settle |-> "reject", error |-> e]
settled(out, v) ==
    CASE v.settle = "resolve" -> resolve(out)
      [] v.settle = "reject" -> reject(out, v.error)
      [] OTHER -> out

\* The catch block of the three checks: clearInterval, reject(error).
onError(error) == Reject(error)

\* (mutant) the timeout branch rejects without clearInterval
onSessionIdStateTimerKept(sessionIdState, att, max) ==
    IF sessionIdState = "loggedIn" THEN Resolve
    ELSE IF sessionIdState = "failed" \/ sessionIdState = "expired"
    THEN Reject("Login " \o sessionIdState)
    ELSE IF Exhausted(att, max)
    THEN [Reject("Polling timeout") EXCEPT !.clear = FALSE]
    ELSE Continue

\* The if / else-if chain of checkSessionIdState.
onSessionIdState(sessionIdState, att, max) ==
    IF sessionIdState = "loggedIn" THEN Resolve
    ELSE IF sessionIdState = "failed" \/ sessionIdState = "expired"
    THEN Reject("Login " \o sessionIdState)
    ELSE IF Exhausted(att, max) THEN Reject("Polling timeout")
    ELSE Continue

\* `states[fileState] ?? fileState ?? 'unknown'` of _getFileState
fileStates(code) ==
    CASE code = "1" -> "pending"
      [] code = "2" -> "uploaded"
      [] code = "3" -> "uploaded"
      [] OTHER -> Coalesce(code, "unknown")

\* `states[fileState] ?? 'unknown'` of _getFileRevokeState
fileRevokeStates(code) ==
    CASE code = "1" -> "pending"
      [] code = "2" -> "revoked"
      [] OTHER -> "unknown"

\* Object.entries(data).map(...): one state per identifier of the response.
getFileState(data) == [id \in DOMAIN data |-> fileStates(data[id])]
getFileRevokeState(data) == [id \in DOMAIN data |-> fileRevokeStates(data[id])]

\* fileStates.every(([_, fileState]) => fileState === wanted)
every(states, wanted) == \A id \in DOMAIN states : states[id] = wanted

\* The if / else-if chain of the two checkFileStates.
onFileStates(states, wanted, att, max) ==
    IF every(states, wanted) THEN Resolve
    ELSE IF Exhausted(att, max) THEN Reject("Polling timeout")
    ELSE Continue

\* The responses of the two batch queries: a code for some of the identifiers.
FileData(Codes) == UNION {[ids -> Codes] : ids \in SUBSET FileIds}

\* checkSessionIdState / checkFileStates up to the await of the probe: the
\* attempt is counted and the probe is sent, or throws 'no session id' and
\* the catch block runs.  Gives the closure's state after it, from the state
\* (att, res, int, out) before it.
check(att, res, int, out) ==
    IF NoSession
    THEN LET v == onError("no session id") IN
         [attempts |-> att + 1, results |-> Append(res, Raised("no session id")),
          interval |-> int /\ ~v.clear, outcome |-> settled(out, v)]
    ELSE [attempts |-> att + 1, results |-> Append(res, Inflight),
          interval |-> int, outcome |-> out]

\* The executor of `new Promise`: attempts = 0, setInterval, first check().
executor(kind, ids, max) ==
    LET c == check(0, <<>>, TRUE, "pending") IN
    /\ pollKind' = kind
    /\ fileIds' = ids
    /\ maxAttempts' = max
    /\ attempts' = c.attempts
    /\ results' = c.results
    /\ interval' = c.interval
    /\ outcome' = c.outcome
    /\ settledOn' = <<>>

waitForLoggedIn(max) ==
    /\ AllIdle
    /\ executor("loggedIn", {}, Default(max, Finite(5)))
    /\ ret' = NoRet
    /\ UNCHANGED <<sessionVars, login, call, upload>>

waitForFilesUploaded(ids, max) ==
    /\ AllIdle
    /\ executor("uploaded", ids, Default(max, Infinity))
    /\ ret' = NoRet
    /\ UNCHANGED <<sessionVars, login, call, upload>>

waitForFilesRevoked(ids, max) ==
    /\ AllIdle
    /\ executor("revoked", ids, Default(max, Infinity))
    /\ ret' = NoRet
    /\ UNCHANGED <<sessionVars, login, call, upload>>

\* The interval timer fires: the callback runs check() again, whether or not
\* an earlier probe is still awaited.
tick ==
    /\ interval
    /\ attempts < MaxProbes
    /\ LET c == check(attempts, results, interval, outcome) IN
        /\ attempts' = c.attempts
        /\ results' = c.results
        /\ interval' = c.interval
        /\ outcome' = c.outcome
    /\ UNCHANGED <<sessionVars, login, call, upload, ret, pollKind, fileIds,
                   maxAttempts, settledOn>>

\* The rest of checkSessionIdState, once probe i's response is there.
checkSessionIdState(i, resp) ==
    /\ pollKind = "loggedIn"
    /\ i \in DOMAIN results
    /\ results[i] = Inflight
    /\ LET error == callApi(resp)
           sessionIdState == sessionIdStates(resp.data)
           v == IF error # NULL THEN onError(error)
                ELSE onSessionIdState(sessionIdState, attempts, maxAttempts)
       IN  /\ results' = [results EXCEPT ![i] =
                    IF error # NULL THEN Raised(error) ELSE Came(sessionIdState)]
           /\ interval' = (interval /\ ~v.clear)
           /\ outcome' = settled(outcome, v)
    /\ UNCHANGED <<sessionVars, login, call, upload, ret, pollKind, fileIds,
                   maxAttempts, attempts, settledOn>>

\* The rest of a checkFileStates, once probe i's response is there: `states`
\* is what the probe returns for it, `wanted` the state every entry must have.
checkFiles(i, error, states, wanted) ==
    /\ i \in DOMAIN results
    /\ results[i] = Inflight
    /\ LET v == IF error # NULL THEN onError(error)
                ELSE onFileStates(states, wanted, attempts, maxAttempts)
       IN  /\ results' = [results EXCEPT ![i] =
                    IF error # NULL THEN Raised(error)
                    ELSE IF every(states, wanted) THEN Came("every")
                    ELSE Came("some")]
           /\ interval' = (interval /\ ~v.clear)
           /\ outcome' = settled(outcome, v)
           /\ settledOn' = IF v.settle = "resolve" /\ outcome = "pending"
                           THEN states ELSE settledOn
    /\ UNCHANGED <<sessionVars, login, call, upload, ret, pollKind, fileIds,
                   maxAttempts, attempts>>

\* waitForFilesUploaded's checkFileStates after the await
checkFileStates(i, resp) ==
    /\ pollKind = "uploaded"
    /\ checkFiles(i, callApi(resp), getFileState(resp.data), "uploaded")

\* waitForFilesRevoked's checkFileStates after the await
checkFileRevokeStates(i, resp) ==
    /\ pollKind = "revoked"
    /\ checkFiles(i, callApi(resp), getFileRevokeState(resp.data), "revoked")

----------------------------------------------------------------------------
(* uploadFile *)

\* How the raw PUT ends: fetch resolves with the response whatever its status,
\* and rejects when the transport fails.
PutResults == {"200", "403", "failed"}

\* uploadFile up to the await of getPresignedUrl
uploadFile ==
    /\ AllIdle
    /\ IF NoSession
       THEN /\ ret' = Threw("uploadFile", "no session id", <<>>)
            /\ UNCHANGED upload
       ELSE /\ upload' = [NoUpload EXCEPT !.pc = "presign",
                    !.issued = <<Request("/presignedUrl", NULL, sessionId)>>]
            /\ ret' = NoRet
    /\ NoPoll
    /\ UNCHANGED <<sessionVars, login, call>>

\* The descriptor is there: the raw PUT to awsUploadUrl is sent.
uploadFilePresigned(resp) ==
    /\ upload.pc = "presign"
    /\ IF callApi(resp) # NULL
       THEN /\ ret' = Threw("uploadFile", callApi(resp), upload.issued)
            /\ upload' = NoUpload
       ELSE /\ upload' = [upload EXCEPT !.pc = "put",
                    !.issued = Append(@, Request(resp.data.awsUploadUrl, NULL, NULL)),
                    !.fileId = resp.data.fileId]
            /\ UNCHANGED ret
    /\ UNCHANGED <<sessionVars, login, call, pollVars>>

\* The PUT is over: saveUploadedFile checks the session and sends its request.
uploadFilePut(put) ==
    /\ upload.pc = "put"
    /\ IF put = "failed"
       THEN /\ ret' = Threw("uploadFile", "fetch failed", upload.issued)
            /\ upload' = NoUpload
       ELSE IF NoSession
       THEN /\ ret' = Threw("uploadFile", "no session id", upload.issued)
            /\ upload' = NoUpload
       ELSE /\ upload' = [upload EXCEPT !.pc = "save", !.put = put,
                    !.issued = Append(@, Request("/file", NULL, sessionId))]
            /\ UNCHANGED ret
    /\ UNCHANGED <<sessionVars, login, call, pollVars>>

\* saveUploadedFile is over: waitForFilesUploaded([fileId]) is started.
uploadFileSaved(resp) ==
    /\ upload.pc = "save"
    /\ IF callApi(resp) # NULL
       THEN /\ ret' = Threw("uploadFile", callApi(resp), upload.issued)
            /\ upload' = NoUpload
            /\ UNCHANGED pollVars
       ELSE /\ upload' = [upload EXCEPT !.pc = "poll"]
            /\ executor("uploaded", {upload.fileId}, Default({}, Infinity))
            /\ UNCHANGED ret
    /\ UNCHANGED <<sessionVars, login, call>>

\* The poll's promise is settled: uploadFile returns fileId or throws.
uploadFileWaited ==
    /\ upload.pc = "poll"
    /\ outcome # "pending"
    /\ ret' = IF outcome = "resolved"
              THEN Returned("uploadFile", {upload.fileId}, upload.issued)
              ELSE Threw("uploadFile", outcome, upload.issued)
    /\ upload' = NoUpload
    /\ UNCHANGED <<sessionVars, login, call, pollVars>>

----------------------------------------------------------------------------
(* Specifications *)

\* The client as constructed.
Init ==
    /\ sessionId = NULL
    /\ user = {}
    /\ acquired = NULL
    /\ login = [p \in Procs |-> NoLogin]
    /\ call = NoCall
    /\ upload = NoUpload
    /\ ret = NoRet
    /\ pollKind = "none"
    /\ fileIds = {}
    /\ maxAttempts = Infinity
    /\ attempts = 0
    /\ interval = FALSE
    /\ outcome = "pending"
    /\ results = <<>>
    /\ settledOn = <<>>

NextLogin ==
    \/ \E p \in Procs, email \in Emails, password \in Passwords :
            login_(p, email, password)
    \/ \E p \in Procs, resp \in Responses(SessionIds) : loginAnonReturn(p, resp)
    \/ \E p \in Procs,
          resp \in Responses([userToken : UserTokens, expireAt : ExpireAts]) :
            loginExchangeReturn(p, resp)
    \/ \E p \in Procs, resp \in Responses(SessionIds) : loginAuthReturn(p, resp)

NextCall ==
    \/ getSessionIdState
    \/ \E resp \in Responses(SessionCodes) : getSessionIdStateReturn(resp)
    \/ getPresignedUrl
    \/ \E resp \in Responses(Descriptors) : getPresignedUrlReturn(resp)
    \/ saveUploadedFile
    \/ \E resp \in Responses({NULL}) : saveUploadedFileReturn(resp)
    \/ revokeFiles
    \/ \E resp \in Responses(Revoked) : revokeFilesReturn(resp)
    \/ getTerminals
    \/ \E resp \in Responses(Terminals) : getTerminalsReturn(resp)

NextPoll ==
    \/ \E max \in MaxAttemptsArgs : waitForLoggedIn(max)
    \/ \E ids \in FileIdsArgs, max \in MaxAttemptsArgs :
            waitForFilesUploaded(ids, max)
    \/ \E ids \in FileIdsArgs, max \in MaxAttemptsArgs :
            waitForFilesRevoked(ids, max)
    \/ tick
    \/ \E i \in DOMAIN results : \E resp \in Responses(SessionCodes) :
            checkSessionIdState(i, resp)
    \/ \E i \in DOMAIN results : \E resp \in Responses(FileData(FileCodes)) :
            checkFileStates(i, resp)
    \/ \E i \in DOMAIN results : \E resp \in Responses(FileData(RevokeCodes)) :
            checkFileRevokeStates(i, resp)

NextUpload ==
    \/ uploadFile
    \/ \E resp \in Responses(Descriptors) : uploadFilePresigned(resp)
    \/ \E put \in PutResults : uploadFilePut(put)
    \/ \E resp \in Responses({NULL}) : uploadFileSaved(resp)
    \/ uploadFileWaited

\* The session manager: overlapping logins and the single-request methods.
Next == NextLogin \/ NextCall
Spec == Init /\ [][Next]_vars

\* The client in a state login leaves it in (no session, an empty identifier,
\* a session), and every operation that does not write the session.
InitOps ==
    /\ \E state \in {<<NULL, {}>>, <<"", {}>>,
                      <<"s1", {[token |-> "t1", expiresAt |-> 17]}>>} :
            sessionId = state[1] /\ user = state[2] /\ acquired = state[1]
    /\ login = [p \in Procs |-> NoLogin]
    /\ call = NoCall
    /\ upload = NoUpload
    /\ ret = NoRet
    /\ pollKind = "none"
    /\ fileIds = {}
    /\ maxAttempts = Infinity
    /\ attempts = 0
    /\ interval = FALSE
    /\ outcome = "pending"
    /\ results = <<>>
    /\ settledOn = <<>>
NextOps == NextCall \/ NextPoll \/ NextUpload
SpecOps == InitOps /\ [][NextOps]_vars

\* The polls alone, called with a finite maxAttempts, with a timer that keeps
\* firing while it is set and a server that answers every probe.
BoundedArgs == {{Finite(1)}, {Finite(2)}}
ProbeReturns(i) ==
    \/ \E resp \in Responses(SessionCodes) : checkSessionIdState(i, resp)
    \/ \E resp \in Responses(FileData(FileCodes)) : checkFileStates(i, resp)
    \/ \E resp \in Responses(FileData(RevokeCodes)) : checkFileRevokeStates(i, resp)
Fairness ==
    /\ WF_vars(tick)
    /\ WF_vars(\E i \in 1..MaxProbes : ProbeReturns(i))
NextFair ==
    \/ \E max \in BoundedArgs : waitForLoggedIn(max)
    \/ \E max \in BoundedArgs : waitForFilesUploaded(FileIds, max)
    \/ \E max \in BoundedArgs : waitForFilesRevoked(FileIds, max)
    \/ tick
    \/ \E i \in DOMAIN results : ProbeReturns(i)
SpecFair == InitOps /\ [][NextFair]_vars /\ Fairness

----------------------------------------------------------------------------
(* The polls: properties *)

Outstanding == {i \in DOMAIN results : results[i] = Inflight}
NonTerminal(r) ==
    r.st = "returned" /\ r.v \in {"loggedOut", "scanned", "unknown", "some"}
Success(r) == r.st = "returned" /\ r.v \in {"loggedIn", "every"}
FailureStates == {"failed", "expired"}
Failure(r) == r.st = "returned" /\ r.v \in FailureStates
NeverTerminal ==
    \A i \in DOMAIN results : results[i] = Inflight \/ NonTerminal(results[i])
Wanted == IF pollKind = "uploaded" THEN "uploaded" ELSE "revoked"

\* C1: in every poll at most one probe is outstanding at a time: no probe is
\* started while an earlier probe of the same poll has not come back.
C1_OneProbeOutstanding == Cardinality(Outstanding) <= 1

\* C2: once the promise of a poll is settled its interval timer is cleared
\* (also when the first, immediate probe settles it), and no probe of that
\* poll is started any more.
C2_SettledStopsPolling ==
    /\ [](outcome # "pending" => ~interval)
    /\ [][outcome # "pending" => attempts' <= attempts]_vars

\* C2's case: the immediate first probe settled the poll.
C2_FirstProbeSettled ==
    /\ pollKind = "loggedIn"
    /\ attempts = 1
    /\ outcome = "resolved"
    /\ ~interval

\* C3: with a finite maxAttempts = N and probes that come back with neither
\* success nor a failure state, no more than N probes are started, the
\* timeout is not raised before the N-th probe has come back, and it is
\* raised once the N probes have.
C3_TimeoutAfterExactlyN ==
    (pollKind # "none" /\ maxAttempts.finite /\ NeverTerminal) =>
        /\ attempts <= maxAttempts.n
        /\ outcome = "Polling timeout" =>
              /\ maxAttempts.n \in DOMAIN results
              /\ NonTerminal(results[maxAttempts.n])
        /\ (attempts = maxAttempts.n /\ Outstanding = {}) =>
              outcome = "Polling timeout"

\* C4: if the k-th probe (k <= maxAttempts) is the first to come back with
\* success and no earlier probe came back with a failure state or raised, the
\* poll is resolved and exactly k probes have been started.
C4_ResolvedOnFirstSuccess ==
    \A k \in DOMAIN results :
        ( /\ Success(results[k])
          /\ ~maxAttempts.finite \/ k <= maxAttempts.n
          /\ \A j \in 1..(k - 1) :
                results[j] = Inflight \/ NonTerminal(results[j]) )
        => outcome = "resolved" /\ attempts = k

\* C5: in waitForLoggedIn the first probe to come back 'failed' or 'expired'
\* rejects the poll with 'Login <state>' and stops the timer, whatever the
\* attempt count; 'loggedOut', 'scanned' and 'unknown' leave the poll as it
\* is while attempts remain.
C5_FailureStateRejects ==
    [][\A i \in DOMAIN results :
        ( /\ pollKind = "loggedIn"
          /\ results[i] = Inflight
          /\ i \in DOMAIN results'
          /\ results'[i].st = "returned" )
        => /\ ( /\ results'[i].v \in FailureStates
                /\ \A j \in DOMAIN results : ~Failure(results[j]) )
              => /\ outcome' = "Login " \o results'[i].v
                 /\ ~interval'
                 /\ attempts' = attempts
           /\ ( /\ results'[i].v \in {"loggedOut", "scanned", "unknown"}
                /\ ~Exhausted(attempts, maxAttempts) )
              => outcome' = outcome /\ interval' = interval
      ]_vars

\* C6: a probe that raises rejects the poll with the error it raised and
\* stops the timer, whatever the attempt count.
C6_ProbeErrorRejects ==
    [][\A i \in DOMAIN results' :
        ( /\ pollKind' # "none"
          /\ results'[i].st = "raised"
          /\ i \notin DOMAIN results \/ results[i] # results'[i] )
        => outcome' = results'[i].v /\ ~interval'
      ]_vars

\* C7: waitForFilesUploaded / waitForFilesRevoked resolve only on a probe that
\* reported every requested identifier 'uploaded' / 'revoked'; an identifier
\* the response leaves out, or gives another code, is not yet success.
C7_ResolvedOnEveryRequested ==
    (pollKind \in {"uploaded", "revoked"} /\ outcome = "resolved") =>
        \A id \in fileIds : id \in DOMAIN settledOn /\ settledOn[id] = Wanted

----------------------------------------------------------------------------
(* The session manager and the authenticated methods: properties *)

LoginUrls == <<"/sessionId", "/user/device/login", "/getSessionId">>
Urls(issued) == [i \in DOMAIN issued |-> issued[i].url]
IsPrefix(s, t) == Len(s) <= Len(t) /\ \A i \in DOMAIN s : s[i] = t[i]
CallErrors == {"fetch failed"} \cup {"500: " \o m : m \in ErrorMsgs}
Empty(args) == Falsy(args[1]) \/ Falsy(args[2])

\* C8: a login with non-empty email and password issues one anonymous
\* acquisition, then one credential exchange, then one authenticated
\* acquisition; it stops short of the three only when the call it issued
\* last has failed.
C8_LoginIssuesThreeCalls ==
    /\ \A p \in Procs : login[p].pc # "idle" =>
          /\ IsPrefix(Urls(login[p].issued), LoginUrls)
          /\ Len(login[p].issued) =
                (CASE login[p].pc = "anon" -> 1 [] login[p].pc = "exch" -> 2
                   [] OTHER -> 3)
    /\ (ret.op = "login" /\ ~Empty(ret.args)) =>
          /\ IsPrefix(Urls(ret.issued), LoginUrls)
          /\ ret.issued # <<>>
          /\ IF ret.error = NULL THEN Len(ret.issued) = 3
             ELSE ret.error \in CallErrors

\* C9: login with an empty or absent email or password throws the validation
\* error with no request issued, and leaves sessionId and user as they were,
\* whatever the session state; only calls with both arguments go further.
C9_ValidationBeforeNetwork ==
    /\ [](/\ \A p \in Procs : login[p].pc # "idle" => ~Empty(login[p].args)
          /\ (ret.op = "login" /\ Empty(ret.args)) =>
                /\ ret.error = "email and password are required"
                /\ ret.issued = <<>>)
    /\ [][(ret' # ret /\ ret'.op = "login" /\ Empty(ret'.args)) =>
            UNCHANGED <<sessionId, user, login>>]_vars

\* C9's case: the validation error of a login called on an authenticated client.
C9_RejectedWhileAuthenticated ==
    /\ ret.op = "login"
    /\ ret.error = "email and password are required"
    /\ ~Falsy(sessionId)
    /\ user # {}

\* C10: while the client holds no session identifier every authenticated
\* method throws 'no session id' with no request issued, a poll is rejected
\* with it by its first check and leaves no timer, and sessionId and user
\* stay as they are.
C10_NoSessionNoRequest ==
    /\ [](Falsy(sessionId) =>
            /\ call = NoCall
            /\ upload = NoUpload
            /\ ret.op # "none" => ret.error = "no session id" /\ ret.issued = <<>>
            /\ pollKind # "none" =>
                  /\ outcome = "no session id"
                  /\ ~interval
                  /\ results = <<Raised("no session id")>>)
    /\ [][Falsy(sessionId) => UNCHANGED <<sessionId, user>>]_vars

\* C10's case: a poll started with no session.
C10_PollWithoutSession ==
    /\ sessionId = NULL
    /\ pollKind = "revoked"
    /\ outcome = "no session id"
    /\ ~interval

\* The authenticated single-request methods.
AuthOps == {"getSessionIdState", "getPresignedUrl", "saveUploadedFile",
            "revokeFiles", "getTerminals"}

\* C11: every request of an authenticated method carries, as its sessionId
\* header, the identifier the most recent successful acquisition returned;
\* and with such a (non-empty) identifier the method does send its request.
C11_HeaderIsAcquired ==
    /\ call.pc = "wait" =>
          /\ Len(call.issued) = 1
          /\ call.issued[1].sessionId = acquired
          /\ ~Falsy(acquired)
    /\ (ret.op \in AuthOps /\ ret.issued # <<>>) =>
          ret.issued[1].sessionId = acquired
    /\ (ret.op \in AuthOps /\ ret.error = "no session id") => Falsy(acquired)

\* C11's case: after a login replaced the identifier of an authenticated
\* client, a request is out with the new identifier.
C11_RequestAfterLogin ==
    /\ call.pc = "wait"
    /\ call.op = "getTerminals"
    /\ user # {}
    /\ call.issued[1].sessionId = "s2"

\* C12: a login whose credential exchange fails throws the exchange's error
\* after two requests, leaves the user as it was and the client holding the
\* identifier of this login's anonymous acquisition (no acquisition of an
\* overlapping login having come back since), and may be called again.
C12_NoRollback ==
    [][\A p \in Procs :
        (login[p].pc = "exch" /\ login'[p].pc = "idle") =>
            /\ user' = user
            /\ sessionId' = sessionId
            /\ acquired = login[p].issued[2].sessionId =>
                  /\ sessionId' = login[p].issued[2].sessionId
                  /\ ~Falsy(sessionId')
            /\ login'[p] = NoLogin
            /\ ret'.op = "login"
            /\ ret'.error \in CallErrors
            /\ Urls(ret'.issued) = SubSeq(LoginUrls, 1, 2)
      ]_vars

\* C12's case: the exchange of a login on an authenticated client failed, and
\* the client holds the identifier of that login's anonymous acquisition.
C12_ExchangeFailedWhileAuthenticated ==
    /\ ret.op = "login"
    /\ ret.error \in CallErrors
    /\ Len(ret.issued) = 2
    /\ ret.issued[1].sessionId = "s1"
    /\ ret.issued[2].sessionId = "s2"
    /\ sessionId = "s2"
    /\ user # {}
    /\ \A p \in Procs : login[p].pc = "idle"

----------------------------------------------------------------------------
(* uploadFile: properties *)

UploadUrls == <<"/presignedUrl", "aws", "/file">>

\* C13: uploadFile requests the descriptor, then PUTs to the upload URL, then
\* saves, then polls, in this order; it goes past the PUT only when the PUT
\* was successful, and it returns the fileId only once the confirmation poll
\* for that fileId is resolved.
C13_UploadStagesInOrder ==
    /\ upload.pc # "idle" =>
          /\ IsPrefix(Urls(upload.issued), UploadUrls)
          /\ Len(upload.issued) =
                (CASE upload.pc = "presign" -> 1 [] upload.pc = "put" -> 2
                   [] OTHER -> 3)
    /\ upload.pc \in {"save", "poll"} => upload.put = "200"
    /\ upload.pc = "poll" => pollKind = "uploaded" /\ fileIds = {upload.fileId}
    /\ (ret.op = "uploadFile" /\ ret.error = NULL) =>
          /\ Urls(ret.issued) = UploadUrls
          /\ pollKind = "uploaded"
          /\ outcome = "resolved"
          /\ ret.value = fileIds

----------------------------------------------------------------------------
(* The polls: further properties *)

\* C14: a file poll with unbounded maxAttempts never fails with the timeout:
\* while its probes come back without success it is still polling, it is
\* resolved only on a successful probe, and rejected only with the error a
\* probe raised.
C14_UnboundedNeverTimesOut ==
    (pollKind \in {"uploaded", "revoked"} /\ ~maxAttempts.finite) =>
        /\ outcome # "Polling timeout"
        /\ outcome = "resolved" => \E i \in DOMAIN results : Success(results[i])
        /\ outcome \notin {"pending", "resolved"} =>
              \E i \in DOMAIN results : results[i] = Raised(outcome)
        /\ NeverTerminal => outcome = "pending" /\ interval

\* C14's case: three probes of an unbounded poll came back without success.
C14_StillPollingAfterThree ==
    /\ pollKind = "revoked"
    /\ ~maxAttempts.finite
    /\ results = <<Came("some"), Came("some"), Came("some")>>
    /\ outcome = "pending"
    /\ interval

----------------------------------------------------------------------------
(* The session slot: properties *)

\* C15: under every interleaving of logins the client holds one identifier,
\* the one returned by the acquisition whose response was processed last.
C15_LastWriteWins ==
    /\ sessionId = acquired
    /\ sessionId \in SessionIds \cup {NULL}

\* C15's case: two logins overlap, and the identifier the first one acquired
\* and sent with its exchange has been replaced by the second one's.
C15_OverlappingLogins ==
    /\ login["p1"].pc = "auth"
    /\ login["p1"].issued[2].sessionId = "s1"
    /\ login["p2"].pc = "exch"
    /\ login["p2"].issued[2].sessionId = "s2"
    /\ sessionId = "s2"

SessionIdStateNames ==
    {"loggedOut", "scanned", "loggedIn", "failed", "expired", "unknown"}

\* C16: getSessionIdState maps the codes 0..4 to loggedOut, scanned, loggedIn,
\* failed, expired and every other code to 'unknown'; no step of it, whether
\* it returns or throws, and no probe of a poll, whether started or come
\* back, changes sessionId or user.
C16_StateQueryObservational ==
    /\ [](/\ sessionIdStates("0") = "loggedOut"
          /\ sessionIdStates("1") = "scanned"
          /\ sessionIdStates("2") = "loggedIn"
          /\ sessionIdStates("3") = "failed"
          /\ sessionIdStates("4") = "expired"
          /\ \A c \in SessionCodes \ {"0", "1", "2", "3", "4"} :
                sessionIdStates(c) = "unknown"
          /\ (ret.op = "getSessionIdState" /\ ret.error = NULL) =>
                \E n \in SessionIdStateNames : ret.value = {n})
    /\ [][( \/ call.op = "getSessionIdState"
            \/ call'.op = "getSessionIdState"
            \/ ret'.op = "getSessionIdState"
            \/ results' # results )
          => UNCHANGED <<sessionId, user>>]_vars

\* C16's case: on an authenticated client a state query got a code outside
\* the table.
C16_UnknownCodeReturned ==
    /\ ret.op = "getSessionIdState"
    /\ ret.value = {"unknown"}
    /\ sessionId = "s1"
    /\ user # {}

\* C17: an acquisition whose call fails (an errorCode other than "0", or the
\* transport failing) leaves sessionId, absent or not, and user as they were.
C17_FailedAcquisitionKeepsSession ==
    [][\A p \in Procs :
        ( /\ login[p].pc \in {"anon", "auth"}
          /\ login'[p].pc = "idle"
          /\ ret'.error \in CallErrors )
        => UNCHANGED <<sessionId, user>>
      ]_vars

\* C17's case: the authenticated acquisition of a login failed, and the client
\* still holds the identifier of the anonymous one.
C17_AuthenticatedAcquisitionFailed ==
    /\ ret.op = "login"
    /\ ret.error \in CallErrors
    /\ Len(ret.issued) = 3
    /\ ret.issued[3].sessionId = "s2"
    /\ sessionId = "s2"
    /\ \A p \in Procs : login[p].pc = "idle"

----------------------------------------------------------------------------
(* The polls: settling *)

\* A step within one poll: the probes that are over stay as they are.
SamePoll ==
    /\ pollKind' = pollKind
    /\ pollKind # "none"
    /\ Len(results') >= Len(results)
    /\ \A i \in DOMAIN results : results[i] # Inflight => results'[i] = results[i]

\* What a probe that is over means for a pending poll.
Verdict(r) ==
    IF r.st = "raised" THEN r.v
    ELSE IF Success(r) THEN "resolved"
    ELSE IF pollKind = "loggedIn" /\ Failure(r) THEN "Login " \o r.v
    ELSE IF Exhausted(attempts, maxAttempts) THEN "Polling timeout"
    ELSE "pending"

\* C18: a poll settles once: while it is pending, a probe that comes back
\* gives it that probe's verdict (resolved, 'Login <state>', the timeout, the
\* error raised, or still pending); once it is settled, a probe that comes
\* back changes neither the outcome nor sessionId or user, starts no probe
\* and leaves the timer cleared.
C18_SettlesOnce ==
    [][SamePoll =>
        /\ outcome # "pending" =>
              /\ outcome' = outcome
              /\ attempts' = attempts
              /\ ~interval'
              /\ UNCHANGED <<sessionId, user>>
        /\ outcome = "pending" =>
              \A i \in DOMAIN results :
                  (results[i] = Inflight /\ results'[i] # Inflight) =>
                      outcome' = Verdict(results'[i])
      ]_vars

\* C18's case: a probe raised after another probe had resolved the poll.
C18_RaisedAfterResolved ==
    /\ pollKind = "loggedIn"
    /\ outcome = "resolved"
    /\ results = <<Raised("fetch failed"), Came("loggedIn")>>

\* C19: a pending poll with a finite maxAttempts (one the probes of the model
\* can use up) is settled eventually, whatever the server reports, provided
\* the timer keeps firing and every probe comes back.
C19_BoundedPollSettles ==
    (pollKind # "none" /\ maxAttempts.finite /\ maxAttempts.n <= MaxProbes
        /\ outcome = "pending")
    ~> (outcome # "pending")

\* C19's case: two probes came back without a verdict and used the attempts up.
C19_TimedOutAfterTwo ==
    /\ pollKind = "loggedIn"
    /\ maxAttempts = Finite(2)
    /\ results = <<Came("scanned"), Came("loggedOut")>>
    /\ outcome = "Polling timeout"

\* C20: no step takes a client that holds an identifier back to holding none,
\* unless the server issues an empty identifier in that step; and the user,
\* once stored, is never cleared, and is written only by an exchange that
\* succeeded.
C20_SessionNeverLost ==
    [][/\ (~Falsy(sessionId) /\ ~Falsy(acquired')) => ~Falsy(sessionId')
       /\ user # {} => user' # {}
       /\ user' # user =>
             \E p \in Procs : login[p].pc = "exch" /\ login'[p].pc = "auth"
      ]_vars

\* C20's case: on an authenticated client the anonymous acquisition of a
\* further login failed, and the client still holds its identifier and user.
C20_HeldAfterFailedLogin ==
    /\ ret.op = "login"
    /\ ret.error \in CallErrors
    /\ Len(ret.issued) = 1
    /\ ret.issued[1].sessionId = "s1"
    /\ sessionId = "s1"
    /\ user # {}
    /\ \A p \in Procs : login[p].pc = "idle"
====
